---- MODULE Spec2Model ----
(***************************************************************************)
(* A model of the plasma-cash-tokens crate:                                *)
(*   - Token (src/token.rs): uid, status, history, proofs, with            *)
(*     Token::new, Token::add_transaction and Token::is_valid;             *)
(*   - is_history_valid (src/token.rs);                                    *)
(*   - the PlasmaCashTxn trait (src/transaction.rs) with the implementors  *)
(*     found in the repository: MockTransaction (src/token.rs, mod test)   *)
(*     and Transaction (tests/eth_plasma_cash.rs), and an arbitrary        *)
(*     implementor whose valid() and compare() are inputs;                 *)
(*   - get_root (src/merkle.rs).                                           *)
(***************************************************************************)
EXTENDS Integers, Sequences, FiniteSets, TLC

VARIABLES
    kind,       \* which implementor of PlasmaCashTxn the Token is generic over
    cmpTab,     \* compare() of the arbitrary implementor, as a table
    uid,        \* Token.uid
    status,     \* Token.status
    history,    \* Token.history
    proofs,     \* Token.proofs
    arg,        \* <<txn>>: the argument of the last add_transaction call
    ret,        \* what the last add_transaction call returned
    hist,       \* the slice handed to is_history_valid
    hres,       \* <<b>>: what is_history_valid returned for hist
    key,        \* get_root: key
    leaf,       \* get_root: leaf_hash
    proof,      \* get_root: proof
    res,        \* <<r>>: what get_root returned for (key, leaf, proof)
    key2,       \* the key of a second get_root call on altered input
    proof2,     \* the proof of a second get_root call on altered input
    res2,       \* <<r>>: what the second call returned
    tree,       \* a sparse Merkle tree: bit path of full depth -> commitment
    txnA,       \* compare: the first record of a pair
    txnB,       \* compare: the second record of a pair
    cmpAB,      \* <<r>>: what txnA.compare(&txnB) returned
    cmpBA,      \* <<r>>: what txnB.compare(&txnA) returned
    borrow,     \* the caller holding the &mut borrow of the Token, or "none"
    pc,         \* per caller: where it stands inside add_transaction
    cand,       \* per caller: <<txn>>, the argument of its call in progress
    seen        \* per caller: <<h>>, the history its match guard looked at

vars == <<kind, cmpTab, uid, status, history, proofs, arg, ret, hist, hres,
          key, leaf, proof, res, key2, proof2, res2, tree,
          txnA, txnB, cmpAB, cmpBA, borrow, pc, cand, seen>>

tokenVars  == <<kind, cmpTab, uid, status, history, proofs, arg, ret>>
histVars   == <<hist, hres>>
merkleVars == <<key, leaf, proof, res, key2, proof2, res2, tree>>
cmpVars    == <<txnA, txnB, cmpAB, cmpBA>>
callVars   == <<borrow, pc, cand, seen>>

(***************************************************************************)
(* Bounds of the model.                                                    *)
(***************************************************************************)
MaxHist == 3        \* longest Token.history explored
MaxSeq == 3         \* longest slice handed to is_history_valid
MaxDepth == 3       \* deepest key handed to get_root
MaxTreeDepth == 2   \* deepest sparse Merkle tree built
MaxReplay == 4      \* longest Token.history explored for repeated records

Min(a, b) == IF a < b THEN a ELSE b

\* The threads of the host program that call into one Token.
Callers == {"c1", "c2"}

Last(s) == s[Len(s)]

\* All sequences over S of length 0..n.
SeqsUpTo(S, n) == UNION {[1..m -> S] : m \in 0..n}

\* All bit vectors of length exactly n.
BitVecs(n) == [1..n -> {0, 1}]

(***************************************************************************)
(* src/transaction.rs: enum TxnCmp.                                        *)
(***************************************************************************)
TxnCmp == {"Same", "Parent", "Child", "EarlierSibling", "LaterSibling",
           "DoubleSpend", "Unrelated"}

(***************************************************************************)
(* The implementors of PlasmaCashTxn.                                      *)
(***************************************************************************)
Kinds == {"Mock", "Eth", "Any"}

\* Token identifiers: BitVec keys.
TokenIds == {<<0, 1>>, <<1, 0>>}

\* tests/eth_plasma_cash.rs: U256 token identifiers and their BitVec form
\* (big-endian bits; two bits wide here, 256 in the source).
EthTokenIds == {1, 2}
uid_to_bitvec(n) == <<(n \div 2) % 2, n % 2>>

\* MockTransaction: sender, receiver, block_num are u8.
MockAccounts == {0, 1, 2}
MockBlocks == {0, 1}
MockTxns == [token_id : TokenIds, sender : MockAccounts,
             receiver : MockAccounts, block_num : MockBlocks]

\* Transaction (eth): newOwner, tokenId, prevBlkNum and the signature; the
\* signature is represented by the address that recover() yields from it.
EthAddrs == {"a1", "a2", "a3"}
EthBlocks == {0, 1}
EthTxns == [newOwner : EthAddrs, tokenId : EthTokenIds,
            prevBlkNum : EthBlocks, signer : EthAddrs]

\* An arbitrary implementor: a record is known by an identity; what its
\* valid() reports is wf, what compare() reports is looked up in cmpTab.
AnyIds == {1, 2}
AnyRels == {"Same", "Parent", "Child", "Unrelated"}
AnyTxns == [id : AnyIds, wf : BOOLEAN]
AnyTables == [AnyIds \X AnyIds -> AnyRels]
NoTable == [p \in AnyIds \X AnyIds |-> "Unrelated"]

TxnsOf(k) == CASE k = "Mock" -> MockTxns
               [] k = "Eth"  -> EthTxns
               [] k = "Any"  -> AnyTxns

\* The records offered to a Token: every record of the implementor, the
\* mock ones of one token identifier (MockTransaction::compare reads the
\* identifier only through ==).
Candidates(k) ==
    IF k = "Mock" THEN {t \in MockTxns : t.token_id = <<0, 1>>} ELSE TxnsOf(k)

\* Transaction::receiver / Transaction::sender (eth).
receiver(t) == t.newOwner
sender(t) == t.signer

\* A variant of MockTransaction::compare whose first sibling test is <=.
MockCompare_sibling_le(self, other) ==
    IF self = other THEN "Same"
    ELSE IF self.receiver = other.sender THEN "Parent"
    ELSE IF self.sender = other.receiver THEN "Child"
    ELSE IF self.sender = other.sender THEN
        IF self.block_num <= other.block_num THEN "EarlierSibling"
        ELSE IF self.block_num > other.block_num THEN "LaterSibling"
        ELSE IF self.block_num = other.block_num THEN "DoubleSpend"
        ELSE "Unrelated"
    ELSE "Unrelated"

\* MockTransaction::compare.
MockCompare(self, other) ==
    IF self = other THEN "Same"
    ELSE IF self.receiver = other.sender THEN "Parent"
    ELSE IF self.sender = other.receiver THEN "Child"
    ELSE IF self.sender = other.sender THEN
        IF self.block_num < other.block_num THEN "EarlierSibling"
        ELSE IF self.block_num > other.block_num THEN "LaterSibling"
        ELSE IF self.block_num = other.block_num THEN "DoubleSpend"
        ELSE "Unrelated"
    ELSE "Unrelated"

\* A variant of Transaction::compare (eth) without the tokenId test.
EthCompare_no_gate(self, other) ==
    IF self.newOwner = sender(other) THEN "Parent"
    ELSE IF sender(self) = other.newOwner THEN "Child"
    ELSE IF sender(self) = sender(other) THEN
        IF self.prevBlkNum < other.prevBlkNum THEN "EarlierSibling"
        ELSE IF self.prevBlkNum > other.prevBlkNum THEN "LaterSibling"
        ELSE IF self.newOwner # other.newOwner THEN "DoubleSpend"
        ELSE "Same"
    ELSE "Unrelated"

\* Transaction::compare (eth).
EthCompare(self, other) ==
    IF self.tokenId = other.tokenId THEN
        IF self.newOwner = sender(other) THEN "Parent"
        ELSE IF sender(self) = other.newOwner THEN "Child"
        ELSE IF sender(self) = sender(other) THEN
            IF self.prevBlkNum < other.prevBlkNum THEN "EarlierSibling"
            ELSE IF self.prevBlkNum > other.prevBlkNum THEN "LaterSibling"
            ELSE IF self.newOwner # other.newOwner THEN "DoubleSpend"
            ELSE "Same"
        ELSE "Unrelated"
    ELSE "Unrelated"

\* PlasmaCashTxn::compare, dispatched on the implementor.
compare(self, other) ==
    CASE kind = "Mock" -> MockCompare(self, other)
      [] kind = "Eth"  -> EthCompare(self, other)
      [] kind = "Any"  -> cmpTab[<<self.id, other.id>>]

\* PlasmaCashTxn::valid, dispatched on the implementor.
valid(t) ==
    CASE kind = "Mock" -> TRUE
      [] kind = "Eth"  -> sender(t) \in EthAddrs
      [] kind = "Any"  -> t.wf

\* PlasmaCashTxn::token_id for the implementors that carry one.
token_id(t) ==
    CASE kind = "Mock" -> t.token_id
      [] kind = "Eth"  -> uid_to_bitvec(t.tokenId)

(***************************************************************************)
(* src/token.rs: is_history_valid.                                         *)
(***************************************************************************)
\* A variant of the loop below that asks prev_txn.compare(txn) == Child.
RECURSIVE history_walk_swapped(_, _)
history_walk_swapped(h, i) ==
    IF i > Len(h) THEN TRUE
    ELSE IF i + 1 <= Len(h)
         THEN IF compare(h[i], h[i + 1]) = "Child"
              THEN history_walk_swapped(h, i + 1)
              ELSE FALSE
         ELSE history_walk_swapped(h, i + 1)

\* The while-let loop over history.iter().peekable(): prev_txn is h[i],
\* the peeked txn is h[i+1].
RECURSIVE history_walk(_, _)
history_walk(h, i) ==
    IF i > Len(h) THEN TRUE
    ELSE IF i + 1 <= Len(h)
         THEN IF compare(h[i + 1], h[i]) = "Child"
              THEN history_walk(h, i + 1)
              ELSE FALSE
         ELSE history_walk(h, i + 1)

is_history_valid(h) ==
    IF Len(h) = 0 THEN TRUE
    ELSE IF ~(\A i \in 1..Len(h) : valid(h[i])) THEN FALSE
    ELSE history_walk(h, 1)

(***************************************************************************)
(* src/merkle.rs: get_root.                                                *)
(***************************************************************************)
\* The injected hash function, taken collision-free: a hash is one letter or
\* a bracketed string, so the concatenation of two hashes splits in one way
\* only and hash_fn is injective on it.
hash_fn(bytes) == "(" \o bytes \o ")"

\* Iterator::rev and Iterator::zip (zip stops with the shorter side).
Reverse(s) == [i \in 1..Len(s) |-> s[Len(s) + 1 - i]]
Zip(a, b) == [i \in 1..Min(Len(a), Len(b)) |-> <<a[i], b[i]>>]

\* Variants of node_bytes: the two branches exchanged, and the key bit
\* not looked at.
node_bytes_swapped(is_right, sibling_node, node_hash) ==
    IF is_right THEN node_hash \o sibling_node ELSE sibling_node \o node_hash

node_bytes_ignoring_key(is_right, sibling_node, node_hash) ==
    node_hash \o sibling_node

\* The bytes hashed at one level: sibling ++ node for a right child,
\* node ++ sibling for a left one.
node_bytes(is_right, sibling_node, node_hash) ==
    IF is_right THEN sibling_node \o node_hash ELSE node_hash \o sibling_node

\* A variant of the loop below that hashes every node twice.
RECURSIVE root_loop_double_hash(_, _, _)
root_loop_double_hash(pairs, i, st) ==
    IF i > Len(pairs) THEN st
    ELSE LET is_right == pairs[i][1] = 1
             sibling_node == pairs[i][2]
             node == node_bytes(is_right, sibling_node, st.node_hash)
         IN  root_loop_double_hash(pairs, i + 1,
                 [node_hash |-> hash_fn(hash_fn(node)),
                  calls |-> st.calls + 2])

\* The for loop over the zipped pairs; st carries node_hash and the number
\* of hash_fn calls made so far.
RECURSIVE root_loop(_, _, _)
root_loop(pairs, i, st) ==
    IF i > Len(pairs) THEN st
    ELSE LET is_right == pairs[i][1] = 1
             sibling_node == pairs[i][2]
             node == node_bytes(is_right, sibling_node, st.node_hash)
         IN  root_loop(pairs, i + 1,
                       [node_hash |-> hash_fn(node), calls |-> st.calls + 1])

RootOk(st) == [ok |-> TRUE, val |-> st.node_hash, calls |-> st.calls]
RootErr(msg) == [ok |-> FALSE, val |-> msg, calls |-> 0]

\* Variants of get_root: without the size check, and with the proof taken
\* in the order given.
get_root_no_size_check(k, leaf_hash, prf) ==
    RootOk(root_loop(Zip(Reverse(k), Reverse(prf)), 1,
                     [node_hash |-> leaf_hash, calls |-> 0]))

get_root_proof_not_reversed(k, leaf_hash, prf) ==
    IF Len(k) # Len(prf)
    THEN RootErr("Key must be the same size as the proof!")
    ELSE RootOk(root_loop(Zip(Reverse(k), prf), 1,
                          [node_hash |-> leaf_hash, calls |-> 0]))

\* A variant of get_root that hashes the leaf before the loop.
get_root_hash_leaf_first(k, leaf_hash, prf) ==
    IF Len(k) # Len(prf)
    THEN RootErr("Key must be the same size as the proof!")
    ELSE RootOk(root_loop(Zip(Reverse(k), Reverse(prf)), 1,
                          [node_hash |-> hash_fn(leaf_hash), calls |-> 1]))

get_root(k, leaf_hash, prf) ==
    IF Len(k) # Len(prf)
    THEN RootErr("Key must be the same size as the proof!")
    ELSE RootOk(root_loop(Zip(Reverse(k), Reverse(prf)), 1,
                          [node_hash |-> leaf_hash, calls |-> 0]))

(***************************************************************************)
(* src/token.rs: Token.                                                    *)
(***************************************************************************)
\* Token::is_valid.
is_valid == is_history_valid(history)

\* Variants of the guard below, each a slip the guard could have had: the
\* relation required is Parent (as in the legacy revision), the operands of
\* compare are swapped, and a repeated record is let through.
not_a_parent(txn) ==
    /\ history # <<>>
    /\ compare(txn, Last(history)) # "Parent"

not_a_child_swapped(txn) ==
    /\ history # <<>>
    /\ compare(Last(history), txn) # "Child"

not_a_child_nor_same(txn) ==
    /\ history # <<>>
    /\ compare(txn, Last(history)) \notin {"Child", "Same"}

\* The guard of the first match arm of add_transaction:
\* Some(last_txn) if txn.compare(last_txn) != TxnCmp::Child.
not_a_child(txn) ==
    /\ history # <<>>
    /\ compare(txn, Last(history)) # "Child"

\* A variant of add_transaction that pushes an empty witness onto proofs
\* with every accepted record.
add_transaction_upto_with_proof(txn, n) ==
    /\ IF not_a_child(txn)
       THEN /\ ret' = "Err"
            /\ history' = history
            /\ proofs' = proofs
       ELSE /\ Len(history) < n
            /\ history' = Append(history, txn)
            /\ proofs' = Append(proofs, <<>>)
            /\ ret' = "Ok"
    /\ arg' = <<txn>>
    /\ UNCHANGED <<kind, cmpTab, uid, status>>
    /\ UNCHANGED histVars
    /\ UNCHANGED merkleVars
    /\ UNCHANGED cmpVars
    /\ UNCHANGED callVars

\* Token::add_transaction, on a history explored up to n entries.
add_transaction_upto(txn, n) ==
    /\ IF not_a_child(txn)
       THEN /\ ret' = "Err"
            /\ history' = history
       ELSE /\ Len(history) < n
            /\ history' = Append(history, txn)
            /\ ret' = "Ok"
    /\ arg' = <<txn>>
    /\ UNCHANGED <<kind, cmpTab, uid, status, proofs>>
    /\ UNCHANGED histVars
    /\ UNCHANGED merkleVars
    /\ UNCHANGED cmpVars
    /\ UNCHANGED callVars

\* A variant of add_transaction that pushes before it checks.
add_transaction_push_first(txn) ==
    /\ Len(history) < MaxHist
    /\ history' = Append(history, txn)
    /\ ret' = IF not_a_child(txn) THEN "Err" ELSE "Ok"
    /\ arg' = <<txn>>
    /\ UNCHANGED <<kind, cmpTab, uid, status, proofs>>
    /\ UNCHANGED histVars
    /\ UNCHANGED merkleVars
    /\ UNCHANGED cmpVars
    /\ UNCHANGED callVars

\* A variant of add_transaction that puts an accepted record in front.
add_transaction_push_front(txn) ==
    /\ IF not_a_child(txn)
       THEN /\ ret' = "Err"
            /\ history' = history
       ELSE /\ Len(history) < MaxHist
            /\ history' = <<txn>> \o history
            /\ ret' = "Ok"
    /\ arg' = <<txn>>
    /\ UNCHANGED <<kind, cmpTab, uid, status, proofs>>
    /\ UNCHANGED histVars
    /\ UNCHANGED merkleVars
    /\ UNCHANGED cmpVars
    /\ UNCHANGED callVars

\* Token::add_transaction.
add_transaction(txn) == add_transaction_upto(txn, MaxHist)

\* The parts of the state a specification does not use.
IdleHist == hist = <<>> /\ hres = <<>>
IdleMerkle ==
    /\ key = <<>> /\ leaf = "" /\ proof = <<>> /\ res = <<>>
    /\ key2 = <<>> /\ proof2 = <<>> /\ res2 = <<>>
    /\ tree = <<>>
IdleToken ==
    /\ uid = <<>> /\ status = "RootChain" /\ history = <<>> /\ proofs = <<>>
    /\ arg = <<>> /\ ret = "none"
IdleCmp == txnA = <<>> /\ txnB = <<>> /\ cmpAB = <<>> /\ cmpBA = <<>>
IdleCall ==
    /\ borrow = "none"
    /\ pc = [c \in Callers |-> "idle"]
    /\ cand = [c \in Callers |-> <<>>]
    /\ seen = [c \in Callers |-> <<>>]

\* The implementor and, for the arbitrary one, its compare().
InitKind ==
    /\ kind \in Kinds
    /\ cmpTab \in IF kind = "Any" THEN AnyTables ELSE {NoTable}

\* Token::new(uid).
Init ==
    /\ InitKind
    /\ uid \in TokenIds
    /\ status = "RootChain"
    /\ history = <<>>
    /\ proofs = <<>>
    /\ arg = <<>>
    /\ ret = "none"
    /\ IdleHist
    /\ IdleMerkle
    /\ IdleCmp
    /\ IdleCall

Next == \E txn \in Candidates(kind) : add_transaction(txn)

Spec == Init /\ [][Next]_vars

(***************************************************************************)
(* is_history_valid as a function of its input: every slice of up to       *)
(* MaxSeq records of one implementor, and one call on it.                  *)
(***************************************************************************)
\* The records a slice is drawn from: those of one token identifier for the
\* implementors that carry one.
SliceTxns(k) ==
    CASE k = "Mock" -> {t \in MockTxns : t.token_id = <<0, 1>>}
      [] k = "Eth"  -> {t \in EthTxns : t.tokenId = 1}
      [] k = "Any"  -> AnyTxns

InitHist ==
    /\ InitKind
    /\ IdleToken
    /\ IdleMerkle
    /\ IdleCmp
    /\ IdleCall
    /\ hist \in SeqsUpTo(SliceTxns(kind), MaxSeq)
    /\ hres = <<>>

\* One call of is_history_valid(&hist).
call_is_history_valid ==
    /\ hres = <<>>
    /\ hres' = <<is_history_valid(hist)>>
    /\ UNCHANGED hist
    /\ UNCHANGED tokenVars
    /\ UNCHANGED merkleVars
    /\ UNCHANGED cmpVars
    /\ UNCHANGED callVars

NextHist == call_is_history_valid

SpecHist == InitHist /\ [][NextHist]_vars

(***************************************************************************)
(* get_root as a function of its input: every key of up to MaxDepth bits,  *)
(* every leaf hash and every proof of up to MaxDepth hashes; one call on   *)
(* it and, after a call that returned Ok, a second call with one proof     *)
(* entry or the key replaced.                                              *)
(***************************************************************************)
\* The hashes handed in: two plain ones and the hash of their pair, so that
\* a sibling can equal a node computed on the way.
HashPool == {"a", "b", hash_fn("a" \o "a")}

Keys(n) == UNION {BitVecs(d) : d \in 0..n}

InitMerkle ==
    /\ kind = "Mock"
    /\ cmpTab = NoTable
    /\ IdleToken
    /\ IdleHist
    /\ IdleCmp
    /\ IdleCall
    /\ key \in Keys(MaxDepth)
    /\ leaf \in HashPool
    /\ proof \in SeqsUpTo(HashPool, MaxDepth)
    /\ res = <<>>
    /\ key2 = <<>> /\ proof2 = <<>> /\ res2 = <<>>
    /\ tree = <<>>

\* get_root(key, leaf, proof, hash_fn).
call_get_root ==
    /\ res = <<>>
    /\ res' = <<get_root(key, leaf, proof)>>
    /\ UNCHANGED <<key, leaf, proof, key2, proof2, res2, tree>>
    /\ UNCHANGED tokenVars
    /\ UNCHANGED histVars
    /\ UNCHANGED cmpVars
    /\ UNCHANGED callVars

\* get_root again, entry i of the proof replaced by another hash h.
call_get_root_other_witness(i, h) ==
    /\ res # <<>> /\ res[1].ok
    /\ res2 = <<>>
    /\ h # proof[i]
    /\ key2' = key
    /\ proof2' = [proof EXCEPT ![i] = h]
    /\ res2' = <<get_root(key2', leaf, proof2')>>
    /\ UNCHANGED <<key, leaf, proof, res, tree>>
    /\ UNCHANGED tokenVars
    /\ UNCHANGED histVars
    /\ UNCHANGED cmpVars
    /\ UNCHANGED callVars

\* get_root again, the key replaced by another key k of the same length.
call_get_root_other_key(k) ==
    /\ res # <<>> /\ res[1].ok
    /\ res2 = <<>>
    /\ k # key
    /\ key2' = k
    /\ proof2' = proof
    /\ res2' = <<get_root(key2', leaf, proof2')>>
    /\ UNCHANGED <<key, leaf, proof, res, tree>>
    /\ UNCHANGED tokenVars
    /\ UNCHANGED histVars
    /\ UNCHANGED cmpVars
    /\ UNCHANGED callVars

NextMerkle ==
    \/ call_get_root
    \/ \E i \in 1..Len(proof) : \E h \in HashPool :
           call_get_root_other_witness(i, h)
    \/ \E k \in BitVecs(Len(key)) : call_get_root_other_key(k)

SpecMerkle == InitMerkle /\ [][NextMerkle]_vars

(***************************************************************************)
(* A sparse Merkle tree built the reference way, a proof read off it, and  *)
(* get_root called on that proof.                                          *)
(***************************************************************************)
\* PlasmaCashTxn::empty_leaf_hash (the hash of the zero word "0") and the
\* leaf_hash of two records with encodings "t" and "u".
empty_leaf_hash == hash_fn("0")
LeafHashes == {hash_fn("t"), hash_fn("u")}
Commitments == {empty_leaf_hash} \cup LeafHashes

\* The hash of the node reached from the root by path: the commitment at a
\* full-depth path, else the hash of left child ++ right child, where the
\* next bit 0 goes left and 1 goes right.
RECURSIVE NodeHash(_, _)
NodeHash(tr, path) ==
    IF path \in DOMAIN tr THEN tr[path]
    ELSE hash_fn(NodeHash(tr, Append(path, 0)) \o NodeHash(tr, Append(path, 1)))

\* The siblings along the path of key k, listed root-to-leaf.
Branch(tr, k) ==
    [i \in 1..Len(k) |-> NodeHash(tr, Append(SubSeq(k, 1, i - 1), 1 - k[i]))]

Trees(n) == UNION {[BitVecs(d) -> Commitments] : d \in 0..n}

InitSMT ==
    /\ kind = "Mock"
    /\ cmpTab = NoTable
    /\ IdleToken
    /\ IdleHist
    /\ IdleCmp
    /\ IdleCall
    /\ tree \in Trees(MaxTreeDepth)
    /\ key = <<>> /\ leaf = "" /\ proof = <<>> /\ res = <<>>
    /\ key2 = <<>> /\ proof2 = <<>> /\ res2 = <<>>

\* The prover: the commitment at key k and its branch.
build_proof(k) ==
    /\ leaf = ""
    /\ key' = k
    /\ leaf' = tree[k]
    /\ proof' = Branch(tree, k)
    /\ UNCHANGED <<res, key2, proof2, res2, tree>>
    /\ UNCHANGED tokenVars
    /\ UNCHANGED histVars
    /\ UNCHANGED cmpVars
    /\ UNCHANGED callVars

NextSMT ==
    \/ \E k \in DOMAIN tree : build_proof(k)
    \/ (leaf # "" /\ call_get_root)

SpecSMT == InitSMT /\ [][NextSMT]_vars

(***************************************************************************)
(* compare as a function of its input: every ordered pair of records of    *)
(* one of the implementors found in the repository, and the two calls      *)
(* txnA.compare(&txnB) and txnB.compare(&txnA).                            *)
(***************************************************************************)
\* MockTransaction (src/token.rs) and Transaction (tests/eth_plasma_cash.rs).
RepoKinds == {"Mock", "Eth"}

InitCmp ==
    /\ kind \in RepoKinds
    /\ cmpTab = NoTable
    /\ IdleToken
    /\ IdleHist
    /\ IdleMerkle
    /\ IdleCall
    /\ txnA \in TxnsOf(kind)
    /\ txnB \in TxnsOf(kind)
    /\ cmpAB = <<>>
    /\ cmpBA = <<>>

\* One call of txnA.compare(&txnB).
call_compare_ab ==
    /\ cmpAB = <<>>
    /\ cmpAB' = <<compare(txnA, txnB)>>
    /\ UNCHANGED <<txnA, txnB, cmpBA>>
    /\ UNCHANGED tokenVars
    /\ UNCHANGED histVars
    /\ UNCHANGED merkleVars
    /\ UNCHANGED callVars

\* One call of txnB.compare(&txnA).
call_compare_ba ==
    /\ cmpBA = <<>>
    /\ cmpBA' = <<compare(txnB, txnA)>>
    /\ UNCHANGED <<txnA, txnB, cmpAB>>
    /\ UNCHANGED tokenVars
    /\ UNCHANGED histVars
    /\ UNCHANGED merkleVars
    /\ UNCHANGED callVars

NextCmp ==
    \/ call_compare_ab
    \/ call_compare_ba

SpecCmp == InitCmp /\ [][NextCmp]_vars

(***************************************************************************)
(* A Token whose proofs field, which is public, already holds witnesses:   *)
(* add_transaction calls on it, and is_valid on every state on the way.    *)
(***************************************************************************)
\* A u8 as it stands in MockTransaction::as_bytes.
Digit(n) == CASE n = 0 -> "0" [] n = 1 -> "1" [] n = 2 -> "2" [] n = 3 -> "3"

\* MockTransaction::as_bytes: [token_id[0], sender, receiver, block_num].
as_bytes(t) ==
    Digit(2 * t.token_id[1] + t.token_id[2]) \o Digit(t.sender)
        \o Digit(t.receiver) \o Digit(t.block_num)

\* MockTransaction::leaf_hash.
leaf_hash(t) == hash_fn(as_bytes(t))

\* PlasmaCashTxn::get_root(&self, proof).
txn_get_root(t, prf) == get_root(token_id(t), leaf_hash(t), prf)

\* The witnesses stored: one of the length of the key and two that are not.
Witnesses == {<<"a">>, <<"a", "b">>, <<"b", "a", "b">>}

\* The records offered: the first transfers of one token.
ProofCandidates == {t \in Candidates("Mock") : t.block_num = 0}

InitProofs ==
    /\ kind = "Mock"
    /\ cmpTab = NoTable
    /\ uid \in TokenIds
    /\ status = "RootChain"
    /\ history = <<>>
    /\ proofs \in SeqsUpTo(Witnesses, 2)
    /\ arg = <<>>
    /\ ret = "none"
    /\ IdleHist
    /\ IdleMerkle
    /\ IdleCmp
    /\ IdleCall

NextProofs == \E txn \in ProofCandidates : add_transaction(txn)

SpecProofs == InitProofs /\ [][NextProofs]_vars

(***************************************************************************)
(* src/lib.rs: the Token of the legacy revision (uid, status, history),    *)
(* generic over the Transaction of its tests, whose compare is the one of  *)
(* tests/eth_plasma_cash.rs.  A failed assert_eq! aborts the caller: ret   *)
(* is "panic" and no further call is made.                                 *)
(***************************************************************************)
\* is_history_valid (legacy): the while loop over the peekable iterator;
\* every prev_txn.compare(&txn) has to be Parent.
RECURSIVE legacy_history_walk(_, _)
legacy_history_walk(h, i) ==
    IF i >= Len(h) THEN TRUE
    ELSE IF compare(h[i], h[i + 1]) = "Parent"
         THEN legacy_history_walk(h, i + 1)
         ELSE FALSE

legacy_is_history_valid(h) ==
    IF Len(h) = 0 THEN TRUE ELSE legacy_history_walk(h, 1)

\* Token::is_valid (legacy).
legacy_is_valid == legacy_is_history_valid(history)

\* Token::add_transaction (legacy).
legacy_add_transaction(txn) ==
    /\ ret # "panic"
    /\ IF history # <<>> /\ compare(txn, Last(history)) # "Parent"
       THEN /\ ret' = "panic"
            /\ history' = history
       ELSE /\ Len(history) < MaxHist
            /\ history' = Append(history, txn)
            /\ ret' = "()"
    /\ arg' = <<txn>>
    /\ UNCHANGED <<kind, cmpTab, uid, status, proofs>>
    /\ UNCHANGED histVars
    /\ UNCHANGED merkleVars
    /\ UNCHANGED cmpVars
    /\ UNCHANGED callVars

\* Token::new(uid) (legacy); uid is a U256.
InitLegacy ==
    /\ kind = "Eth"
    /\ cmpTab = NoTable
    /\ uid \in EthTokenIds
    /\ status = "RootChain"
    /\ history = <<>>
    /\ proofs = <<>>
    /\ arg = <<>>
    /\ ret = "none"
    /\ IdleHist
    /\ IdleMerkle
    /\ IdleCmp
    /\ IdleCall

NextLegacy == \E txn \in EthTxns : legacy_add_transaction(txn)

SpecLegacy == InitLegacy /\ [][NextLegacy]_vars

(***************************************************************************)
(* src/token.rs: add_transaction called by several threads on one Token,   *)
(* one step per statement: the call takes its &mut self receiver, the      *)
(* match reads self.history.last() and evaluates the guard, the second     *)
(* arm pushes, the call returns and the borrow ends.                       *)
(***************************************************************************)
\* The records offered: the first transfers of one token to another account.
CallCandidates == {t \in ProofCandidates : t.sender # t.receiver}

\* A variant of the entry below for a receiver that is shared (&self).
call_begin_shared(c, txn) ==
    /\ pc[c] = "idle"
    /\ Len(history) < MaxHist
    /\ borrow' = c
    /\ pc' = [pc EXCEPT ![c] = "match"]
    /\ cand' = [cand EXCEPT ![c] = <<txn>>]
    /\ UNCHANGED seen
    /\ UNCHANGED tokenVars
    /\ UNCHANGED histVars
    /\ UNCHANGED merkleVars
    /\ UNCHANGED cmpVars

\* fn add_transaction(&mut self, txn: TxnType): the caller needs the only
\* live reference to the Token.
call_begin(c, txn) ==
    /\ pc[c] = "idle"
    /\ borrow = "none"
    /\ Len(history) < MaxHist
    /\ borrow' = c
    /\ pc' = [pc EXCEPT ![c] = "match"]
    /\ cand' = [cand EXCEPT ![c] = <<txn>>]
    /\ UNCHANGED seen
    /\ UNCHANGED tokenVars
    /\ UNCHANGED histVars
    /\ UNCHANGED merkleVars
    /\ UNCHANGED cmpVars

\* match self.history.last() { Some(last_txn) if ... != TxnCmp::Child => ...
call_match(c) ==
    /\ pc[c] = "match"
    /\ seen' = [seen EXCEPT ![c] = <<history>>]
    /\ pc' = [pc EXCEPT ![c] = IF not_a_child(cand[c][1])
                                THEN "err" ELSE "push"]
    /\ UNCHANGED <<borrow, cand>>
    /\ UNCHANGED tokenVars
    /\ UNCHANGED histVars
    /\ UNCHANGED merkleVars
    /\ UNCHANGED cmpVars

\* self.history.push(txn);
call_push(c) ==
    /\ pc[c] = "push"
    /\ history' = Append(history, cand[c][1])
    /\ pc' = [pc EXCEPT ![c] = "ok"]
    /\ UNCHANGED <<borrow, cand, seen>>
    /\ UNCHANGED <<kind, cmpTab, uid, status, proofs, arg, ret>>
    /\ UNCHANGED histVars
    /\ UNCHANGED merkleVars
    /\ UNCHANGED cmpVars

\* Ok(()) or Err(..) is returned and the borrow of the Token ends.
call_return(c) ==
    /\ pc[c] \in {"ok", "err"}
    /\ ret' = IF pc[c] = "ok" THEN "Ok" ELSE "Err"
    /\ arg' = cand[c]
    /\ borrow' = IF borrow = c THEN "none" ELSE borrow
    /\ pc' = [pc EXCEPT ![c] = "idle"]
    /\ cand' = [cand EXCEPT ![c] = <<>>]
    /\ UNCHANGED seen
    /\ UNCHANGED <<kind, cmpTab, uid, status, history, proofs>>
    /\ UNCHANGED histVars
    /\ UNCHANGED merkleVars
    /\ UNCHANGED cmpVars

\* Token::new(uid), shared by the callers.
InitCall ==
    /\ kind = "Mock"
    /\ cmpTab = NoTable
    /\ uid \in TokenIds
    /\ status = "RootChain"
    /\ history = <<>>
    /\ proofs = <<>>
    /\ arg = <<>>
    /\ ret = "none"
    /\ IdleHist
    /\ IdleMerkle
    /\ IdleCmp
    /\ IdleCall

NextCall ==
    \E c \in Callers :
        \/ \E txn \in CallCandidates : call_begin(c, txn)
        \/ call_match(c)
        \/ call_push(c)
        \/ call_return(c)

SpecCall == InitCall /\ [][NextCall]_vars

(***************************************************************************)
(* src/token.rs: a Token over MockTransaction followed for one entry more  *)
(* than in Spec, long enough for the token to travel round three accounts  *)
(* and leave the first of them again.                                      *)
(***************************************************************************)
InitReplay ==
    /\ kind = "Mock"
    /\ cmpTab = NoTable
    /\ uid \in TokenIds
    /\ status = "RootChain"
    /\ history = <<>>
    /\ proofs = <<>>
    /\ arg = <<>>
    /\ ret = "none"
    /\ IdleHist
    /\ IdleMerkle
    /\ IdleCmp
    /\ IdleCall

NextReplay ==
    \E txn \in Candidates(kind) : add_transaction_upto(txn, MaxReplay)

SpecReplay == InitReplay /\ [][NextReplay]_vars

(***************************************************************************)
(* Claims.                                                                 *)
(***************************************************************************)
\* Every adjacent pair of h is linked next.compare(prev) == Child.
Lineage(h) ==
    \A i \in 1..(Len(h) - 1) : compare(h[i + 1], h[i]) = "Child"

AllValid(h) == \A i \in 1..Len(h) : valid(h[i])

\* C1: add_transaction returns Ok and appends the candidate if and only if
\* the history is empty or txn.compare(last entry) == Child; against a
\* non-empty history every other relation makes it return Err.
C1_Step ==
    /\ Len(arg') = 1
    /\ ret' \in {"Ok", "Err"}
    /\ (ret' = "Ok") <=>
           (history = <<>> \/ compare(arg'[1], Last(history)) = "Child")
    /\ (ret' = "Ok") => history' = Append(history, arg'[1])

C1_AcceptsIffChild == [][C1_Step]_vars

\* A call was rejected because the candidate is the Parent of the last entry.
C1_Witness ==
    /\ ret = "Err"
    /\ history # <<>>
    /\ compare(arg[1], Last(history)) = "Parent"

\* C2: a rejected add_transaction leaves the token as it was: history (its
\* length, entries and order), uid, status and proofs are unchanged.
C2_Step ==
    (ret' = "Err") =>
        /\ history' = history
        /\ uid' = uid
        /\ status' = status
        /\ proofs' = proofs

C2_RejectLeavesToken == [][C2_Step]_vars

\* A candidate was rejected as a DoubleSpend against a history of two.
C2_Witness ==
    /\ ret = "Err"
    /\ Len(history) = 2
    /\ compare(arg[1], Last(history)) = "DoubleSpend"

\* C3 (I3): in every reachable Token state every adjacent pair of history
\* entries satisfies history[i+1].compare(history[i]) == Child.
C3_LineageInvariant == Lineage(history)

\* Three records were accepted one after the other.
C3_Witness ==
    /\ Len(history) = 3
    /\ ret = "Ok"
    /\ arg = <<history[3]>>

\* C4: as long as the records in the history are valid() ones, is_valid()
\* is true in every reachable state, after accepted and rejected calls.
C4_IsValidAlways == AllValid(history) => is_valid

\* is_valid() is true after a rejected call on a history of valid records.
C4_Witness ==
    /\ ret = "Err"
    /\ Len(history) >= 2
    /\ valid(arg[1])
    /\ AllValid(history)
    /\ is_valid

\* C5: is_history_valid is true exactly when the slice is empty, or every
\* entry is valid() and every adjacent pair is linked
\* next.compare(prev) == Child.
C5_HistoryValidExactly ==
    (hres # <<>>) =>
        (hres[1] <=> (hist = <<>> \/ (AllValid(hist) /\ Lineage(hist))))

\* A slice of three, linked throughout, is refused for one invalid entry.
C5_Witness ==
    /\ hres = <<FALSE>>
    /\ Len(hist) = 3
    /\ Lineage(hist)
    /\ valid(hist[1]) /\ ~valid(hist[2]) /\ valid(hist[3])

\* C6: get_root returns an error whenever the witness length differs from
\* the key's bit length and Ok whenever the two are equal; it never cuts to
\* the shorter of the two and computes a root.
C6_SizeMismatchIsError ==
    (res # <<>>) => (res[1].ok <=> (Len(key) = Len(proof)))

\* A proof shorter than the key, but not empty, was refused.
C6_Witness ==
    /\ res # <<>>
    /\ ~res[1].ok
    /\ 0 < Len(proof)
    /\ Len(proof) < Len(key)

\* The reference fold: from level i down to level lo + 1, key bit i paired
\* with w[i].
RECURSIVE RefFold(_, _, _, _, _)
RefFold(k, w, i, lo, acc) ==
    IF i <= lo THEN acc
    ELSE RefFold(k, w, i - 1, lo,
                 IF k[i] = 1 THEN hash_fn(w[i] \o acc) ELSE hash_fn(acc \o w[i]))

\* C7: for a key of depth d and a witness w given root-to-leaf, get_root
\* equals the reference fold from the leaf commitment over i = d-1 .. 0;
\* key 0b101, leaf H0, witness [S2, S1, S0] gives
\* hash(S2 ++ hash(hash(S0 ++ H0) ++ S1)).
C7_EqualsReferenceFold ==
    (res # <<>> /\ res[1].ok) =>
        /\ res[1].val = RefFold(key, proof, Len(key), 0, leaf)
        /\ (key = <<1, 0, 1>>) =>
              res[1].val =
                  hash_fn(proof[1] \o
                          hash_fn(hash_fn(proof[3] \o leaf) \o proof[2]))

\* The key 0b101 with three different witness entries was folded.
C7_Witness ==
    /\ res # <<>> /\ res[1].ok
    /\ key = <<1, 0, 1>>
    /\ Cardinality({proof[1], proof[2], proof[3]}) = 3

\* C8: for every tree built the reference way, every key and the siblings of
\* its path listed root-to-leaf, get_root(key, commitment at key, witness)
\* is the tree's root, for a leaf hash and for the empty-leaf sentinel.
C8_RoundTrip ==
    (res # <<>>) => (res[1].ok /\ res[1].val = NodeHash(tree, <<>>))

\* The root was rebuilt from an empty slot whose neighbour holds a record.
C8_Witness ==
    /\ res # <<>> /\ res[1].ok
    /\ Len(key) = 2
    /\ leaf = empty_leaf_hash
    /\ proof[2] \in LeafHashes
    /\ res[1].val = NodeHash(tree, <<>>)

\* C9 as stated: replacing one witness entry by a different hash, or the key
\* by a different key of the same length, changes the value get_root returns.
C9_TamperAlwaysDetected ==
    (res2 # <<>>) => (res2[1].val # res[1].val)

\* C9 as amended: replacing one witness entry by a different hash changes
\* the value; replacing the key changes it exactly when, at some level where
\* the two keys differ, the witness entry differs from the node hash
\* computed below that level.
C9_TamperDetected ==
    (res2 # <<>>) =>
        IF key2 = key
        THEN res2[1].val # res[1].val
        ELSE (res2[1].val # res[1].val) <=>
                 \E j \in 1..Len(key) :
                     /\ key[j] # key2[j]
                     /\ proof[j] # RefFold(key, proof, Len(key), j, leaf)

\* Another key was handed in at depth 2 and the value changed.
C9_Witness ==
    /\ res2 # <<>>
    /\ key2 # key
    /\ Len(key) = 2
    /\ res2[1].val # res[1].val

\* The sender, receiver, ordinal and token of a record of the two
\* classifiers supplied in the repository.
SenderOf(t) == IF kind = "Mock" THEN t.sender ELSE sender(t)
ReceiverOf(t) == IF kind = "Mock" THEN t.receiver ELSE receiver(t)
OrdinalOf(t) == IF kind = "Mock" THEN t.block_num ELSE t.prevBlkNum
TokenOf(t) == IF kind = "Mock" THEN t.token_id ELSE t.tokenId

\* A sequence of ownership transfers of one token: each record hands the
\* token to another account and is sent by the receiver of the record
\* before it, at a larger ordinal.
TransferChain(h) ==
    /\ \A i \in 1..Len(h) : SenderOf(h[i]) # ReceiverOf(h[i])
    /\ \A i \in 1..(Len(h) - 1) :
        /\ TokenOf(h[i + 1]) = TokenOf(h[i])
        /\ SenderOf(h[i + 1]) = ReceiverOf(h[i])
        /\ OrdinalOf(h[i + 1]) > OrdinalOf(h[i])

\* C10: under MockTransaction and the eth Transaction, every call that
\* extends the history to a chain of ownership transfers of one token
\* (sender = previous receiver, ordinals increasing) succeeds, and
\* is_valid() is true afterwards.
C10_Step ==
    (/\ kind \in {"Mock", "Eth"}
     /\ Len(arg') = 1
     /\ TransferChain(Append(history, arg'[1])))
        => (ret' = "Ok" /\ is_valid')

C10_TransferChainAccepted == [][C10_Step]_vars

(***************************************************************************)
(* C11. Two records of the same token with the same sender and the same    *)
(* ordinal compare as DoubleSpend when their receivers differ and as Same  *)
(* when their receivers are equal.                                         *)
(***************************************************************************)
SameSpend(a, b) ==
    /\ TokenOf(a) = TokenOf(b)
    /\ SenderOf(a) = SenderOf(b)
    /\ OrdinalOf(a) = OrdinalOf(b)

C11_DoubleSpendClassified ==
    (cmpAB # <<>> /\ SameSpend(txnA, txnB))
        => cmpAB[1] = IF ReceiverOf(txnA) # ReceiverOf(txnB)
                      THEN "DoubleSpend" ELSE "Same"

(***************************************************************************)
(* C12. Anti-symmetry: compare(A, B) is Parent exactly when compare(B, A)  *)
(* is Child, so no two records are Parent of each other.                   *)
(***************************************************************************)
C12_AntiSymmetry ==
    (cmpAB # <<>> /\ cmpBA # <<>>)
        => ((cmpAB[1] = "Parent") <=> (cmpBA[1] = "Child"))

(***************************************************************************)
(* C13. Reflexivity: compare(A, A) is Same for every record A, also one    *)
(* whose sender is its receiver.                                           *)
(***************************************************************************)
C13_Reflexive ==
    (cmpAB # <<>> /\ txnA = txnB) => cmpAB[1] = "Same"

(***************************************************************************)
(* C14. Identity gate: records of different token identifiers compare as   *)
(* Unrelated, whatever their senders, receivers and ordinals.              *)
(***************************************************************************)
C14_IdentityGate ==
    (cmpAB # <<>> /\ TokenOf(txnA) # TokenOf(txnB)) => cmpAB[1] = "Unrelated"

(***************************************************************************)
(* C15. I2: every history entry of a Token is valid(); a record whose      *)
(* valid() is false never enters the history.                              *)
(***************************************************************************)
C15_HistoryEntriesValid ==
    \A i \in 1..Len(history) : valid(history[i])

(***************************************************************************)
(* C16. I1: the token_id() of every history entry is the uid of the Token. *)
(***************************************************************************)
C16_HistoryOfThisToken ==
    kind \in RepoKinds
        => \A i \in 1..Len(history) : token_id(history[i]) = uid

(***************************************************************************)
(* C17. I4, length: proofs holds one witness per history entry; an         *)
(* accepted add_transaction appends the record and its witness together.   *)
(***************************************************************************)
C17_ProofPerRecord == Len(proofs) = Len(history)

(***************************************************************************)
(* C18. is_valid() is false whenever a stored witness, with the leaf hash  *)
(* of the record it is paired with and the key of the token, does not      *)
(* reconstruct the claimed root.  A witness for which get_root returns Err *)
(* reconstructs no root at all, so for is_valid() to be true get_root has  *)
(* to return Ok for every stored pair.                                     *)
(***************************************************************************)
C18_IsValidChecksProofs ==
    is_valid => \A i \in 1..Min(Len(history), Len(proofs)) :
                    txn_get_root(history[i], proofs[i]).ok

(***************************************************************************)
(* C19. add_transaction never aborts the process: whatever the token and   *)
(* the candidate, a lineage violation ends in a returned value, never in a *)
(* panic or a failed assertion.                                            *)
(***************************************************************************)
C19_NeverAborts == ret # "panic"

(***************************************************************************)
(* C20. The lineage check and the append of add_transaction are one atomic *)
(* step under every interleaving of calls on one Token: while a call is in *)
(* progress no other call is, and when a call is about to push, the        *)
(* history is still the one its guard looked at.                           *)
(***************************************************************************)
C20_CheckAndAppendAtomic ==
    \A c \in Callers :
        /\ pc[c] # "idle" => \A d \in Callers \ {c} : pc[d] = "idle"
        /\ pc[c] = "push" => seen[c] = <<history>>

\* A call of c1 is about to push onto a history that an earlier, accepted
\* call of c2 has extended.
C20_Witness ==
    /\ pc["c1"] = "push"
    /\ pc["c2"] = "idle"
    /\ seen["c2"] # <<>>
    /\ seen["c1"] = <<history>>
    /\ Len(seen["c2"][1]) < Len(history)
    /\ history # <<>>

(***************************************************************************)
(* C21. The history is append-only: the history before a call of           *)
(* add_transaction is a prefix of the history after it, and an accepted    *)
(* call makes it exactly one longer, with the candidate as the last entry. *)
(***************************************************************************)
IsPrefix(s, t) == Len(s) <= Len(t) /\ SubSeq(t, 1, Len(s)) = s

C21_Step ==
    /\ IsPrefix(history, history')
    /\ ret' = "Ok" => history' = Append(history, arg'[1])

C21_AppendOnly == [][C21_Step]_vars

\* An accepted call on a history that already held two entries.
C21_Witness ==
    /\ Len(history) >= 3
    /\ ret = "Ok"
    /\ Last(history) = arg[1]

(***************************************************************************)
(* C22. For a key of no bits and an empty witness get_root returns Ok with *)
(* the leaf commitment unchanged, and calls the hash function zero times.  *)
(***************************************************************************)
C22_ZeroDepth ==
    (res # <<>> /\ key = <<>> /\ proof = <<>>)
        => res[1] = [ok |-> TRUE, val |-> leaf, calls |-> 0]

C22_Witness ==
    /\ res # <<>>
    /\ key = <<>>
    /\ proof = <<>>
    /\ leaf = hash_fn("a" \o "a")

(***************************************************************************)
(* C23. On success get_root calls the hash function once per key bit, on a *)
(* length mismatch not at all.                                             *)
(***************************************************************************)
C23_HashCalls ==
    res # <<>> => res[1].calls = IF res[1].ok THEN Len(key) ELSE 0

\* A success at the greatest depth.
C23_Witness ==
    /\ res # <<>>
    /\ Len(key) = MaxDepth
    /\ res[1].ok
    /\ res[1].calls = MaxDepth

(***************************************************************************)
(* C24. In the legacy revision add_transaction and is_history_valid agree  *)
(* on the direction of the lineage: after any sequence of add_transaction  *)
(* calls whose assertion passed, is_valid() returns true.                  *)
(***************************************************************************)
C24_LegacyDirectionsAgree == ret # "panic" => legacy_is_valid

(***************************************************************************)
(* C25. A record that is in the history of a token cannot be added again:  *)
(* no record occurs twice in the history, at adjacent positions or apart.  *)
(***************************************************************************)
C25_NoReplay ==
    \A i, j \in 1..Len(history) : i # j => history[i] # history[j]

(***************************************************************************)
(* C26. Unbroken ownership lineage under the Transaction classifier of     *)
(* tests/eth_plasma_cash.rs: all history entries carry the same token id   *)
(* and the sender of every entry is the receiver of the entry before it.   *)
(***************************************************************************)
C26_UnbrokenLineage ==
    kind = "Eth"
        => \A i \in 1..(Len(history) - 1) :
               /\ history[i + 1].tokenId = history[i].tokenId
               /\ sender(history[i + 1]) = receiver(history[i])

C26_Witness ==
    /\ kind = "Eth"
    /\ Len(history) = 3
    /\ ret = "Ok"

(***************************************************************************)
(* C27. The classifiers of the repository are converse-consistent on the   *)
(* relations that are not edges: compare(A, B) is EarlierSibling exactly   *)
(* when compare(B, A) is LaterSibling, and DoubleSpend, Same and Unrelated *)
(* each hold in one direction exactly when they hold in the other.         *)
(***************************************************************************)
C27_ConverseConsistent ==
    (cmpAB # <<>> /\ cmpBA # <<>>)
        => /\ (cmpAB[1] = "EarlierSibling") <=> (cmpBA[1] = "LaterSibling")
           /\ (cmpAB[1] = "DoubleSpend") <=> (cmpBA[1] = "DoubleSpend")
           /\ (cmpAB[1] = "Same") <=> (cmpBA[1] = "Same")
           /\ (cmpAB[1] = "Unrelated") <=> (cmpBA[1] = "Unrelated")

\* Both calls made on a pair of siblings of different ordinals.
C27_Witness ==
    /\ cmpAB = <<"EarlierSibling">>
    /\ cmpBA = <<"LaterSibling">>

(***************************************************************************)
(* C28. Token::new(uid) yields an empty history, empty proofs and status   *)
(* RootChain; add_transaction, accepted or rejected, changes none of uid,  *)
(* status and proofs; so in every reachable state uid is the uid of the    *)
(* creation, status is RootChain and proofs is empty.                      *)
(***************************************************************************)
C28_Step == uid' = uid /\ status' = status /\ proofs' = proofs

C28_NewAndFixed ==
    /\ history = <<>> /\ proofs = <<>> /\ status = "RootChain"
    /\ [][C28_Step]_vars
    /\ [](status = "RootChain" /\ proofs = <<>>)

\* A rejected call on a full history, after accepted ones.
C28_Witness ==
    /\ Len(history) = MaxHist
    /\ ret = "Err"
    /\ uid = <<1, 0>>
    /\ status = "RootChain"

====
